---- MODULE Spec2Model ----
(***************************************************************************)
(* solosec report aggregator (src/bin/aggregator.py): the per-tool         *)
(* parsers, the severity normalizer, the sort, the report and the verdict. *)
(*                                                                         *)
(* Python values are tagged records [k |-> kind, v |-> payload]; a str is  *)
(* a sequence of one-character strings, so that str.strip, str.upper and   *)
(* f-string concatenation are computed character by character.             *)
(***************************************************************************)
EXTENDS Integers, Sequences, FiniteSets, TLC

VARIABLES
    files,            \* report_dir: file name -> [st, data]
    pc,               \* position in main / in the called function
    all_findings,     \* main's all_findings list
    warnings,         \* file names of the "Warning: Could not parse" lines printed
    report,           \* the document written to output_file (NoReport before)
    summary,          \* what _compute_human_summary returned (NoValue before)
    failed,           \* print_human_summary's return value (NoValue before)
    fail_on_critical, \* print_human_summary's keyword argument
    exit_code,        \* main's return value (NoValue before)
    exc,              \* the exception that left main and the parser it left from
    sev_arg,          \* argument of a direct _normalize_severity call
    sev_ret           \* the successive results of re-applying it

vars == <<files, pc, all_findings, warnings, report, summary, failed, fail_on_critical,
          exit_code, exc, sev_arg, sev_ret>>

-----------------------------------------------------------------------------
(* Bounds of the model.                                                    *)

\* longest generated list of entries in one single-file document
MaxItems == 2
\* longest generated list of entries per document when all four files vary
MaxMainItems == 1
\* most whitespace characters put on each side of a severity token
MaxPad == 1
\* longest findings list handed directly to print_human_summary
MaxSummaryLen == 3
\* longest findings list handed directly to _compute_human_summary
MaxBreakdownLen == 3

-----------------------------------------------------------------------------
(* String literals of the source, as character sequences.                  *)

S_UNKNOWN == <<"U", "N", "K", "N", "O", "W", "N">>
S_CRITICAL == <<"C", "R", "I", "T", "I", "C", "A", "L">>
S_HIGH == <<"H", "I", "G", "H">>
S_MEDIUM == <<"M", "E", "D", "I", "U", "M">>
S_LOW == <<"L", "O", "W">>
S_INFO == <<"I", "N", "F", "O">>
S_CRIT == <<"C", "R", "I", "T">>
S_ERROR == <<"E", "R", "R", "O", "R">>
S_WARN == <<"W", "A", "R", "N">>
S_WARNING == <<"W", "A", "R", "N", "I", "N", "G">>
S_INFORMATION == <<"I", "N", "F", "O", "R", "M", "A", "T", "I", "O", "N">>
S_INFORMATIONAL == <<"I", "N", "F", "O", "R", "M", "A", "T", "I", "O", "N", "A", "L">>
S_MODERATE == <<"M", "O", "D", "E", "R", "A", "T", "E">>
S_Unknown == <<"U", "n", "k", "n", "o", "w", "n">>
S_UnknownPackage == <<"U", "n", "k", "n", "o", "w", "n", " ", "p", "a", "c", "k", "a", "g", "e">>
S_UnknownVersion == <<"U", "n", "k", "n", "o", "w", "n", " ", "v", "e", "r", "s", "i", "o", "n">>
S_Vulnerability == <<"V", "u", "l", "n", "e", "r", "a", "b", "i", "l", "i", "t", "y">>
S_NoFixAvailable == <<"N", "o", " ", "f", "i", "x", " ", "a", "v", "a", "i", "l", "a", "b", "l", "e">>
S_Trivy == <<"T", "r", "i", "v", "y">>
S_Semgrep == <<"S", "e", "m", "g", "r", "e", "p">>
S_SemgrepFinding == <<"S", "e", "m", "g", "r", "e", "p", " ", "f", "i", "n", "d", "i", "n", "g">>
S_Gitleaks == <<"G", "i", "t", "l", "e", "a", "k", "s">>
S_SecretDetected == <<"S", "e", "c", "r", "e", "t", " ", "d", "e", "t", "e", "c", "t", "e", "d", ":", " ">>
S_REDACTED == <<"R", "E", "D", "A", "C", "T", "E", "D">>
S_URLTarget == <<"U", "R", "L", " ", "T", "a", "r", "g", "e", "t">>
S_ZAP == <<"Z", "A", "P">>
S_ZAPAlert == <<"Z", "A", "P", " ", "a", "l", "e", "r", "t">>
S_None == <<"N", "o", "n", "e">>
S_True == <<"T", "r", "u", "e">>
S_False == <<"F", "a", "l", "s", "e">>
S_gitleaks == <<"g", "i", "t", "l", "e", "a", "k", "s">>
S_semgrep == <<"s", "e", "m", "g", "r", "e", "p">>
S_trivy == <<"t", "r", "i", "v", "y">>
S_zap == <<"z", "a", "p">>
S_Secrets == <<"S", "e", "c", "r", "e", "t", "s">>
S_Code == <<"C", "o", "d", "e">>
S_Deps == <<"D", "e", "p", "s">>
S_Other == <<"O", "t", "h", "e", "r">>
S_Empty == <<>>
S_Space == <<" ">>
S_Dash == <<" ", "-", " ">>

-----------------------------------------------------------------------------
(* Python values.                                                          *)

PyNone == [k |-> "NoneType", v |-> 0]
PyBool(b) == [k |-> "bool", v |-> b]
PyInt(n) == [k |-> "int", v |-> n]
PyStr(s) == [k |-> "str", v |-> s]
PyList(xs) == [k |-> "list", v |-> xs]
PyDict(d) == [k |-> "dict", v |-> d]
EmptyDict == PyDict(<<>>)
EmptyList == PyList(<<>>)

isinstance(x, kind) == x.k = kind

\* bool(x)
Truthy(x) ==
    CASE x.k = "NoneType" -> FALSE
      [] x.k = "bool" -> x.v
      [] x.k = "int" -> x.v # 0
      [] x.k = "str" -> Len(x.v) > 0
      [] x.k = "list" -> Len(x.v) > 0
      [] x.k = "dict" -> DOMAIN x.v # {}

\* a or b
Or(a, b) == IF Truthy(a) THEN a ELSE b

\* d.get(key, default) for a dict d
Get(d, key, default) == IF key \in DOMAIN d.v THEN d.v[key] ELSE default

RECURSIVE Digits(_)
Digits(n) ==
    LET d == <<"0", "1", "2", "3", "4", "5", "6", "7", "8", "9">>[(n % 10) + 1]
    IN  IF n < 10 THEN <<d>> ELSE Digits(n \div 10) \o <<d>>

RECURSIVE Repr(_), JoinRepr(_)
\* repr(x): a str is quoted (the strings of the model hold no quote or backslash)
Repr(x) ==
    CASE x.k = "NoneType" -> S_None
      [] x.k = "bool" -> IF x.v THEN S_True ELSE S_False
      [] x.k = "int" -> IF x.v < 0 THEN <<"-">> \o Digits(-x.v) ELSE Digits(x.v)
      [] x.k = "str" -> <<"'">> \o x.v \o <<"'">>
      [] x.k = "list" -> <<"[">> \o JoinRepr(x.v) \o <<"]">>
      [] x.k = "dict" /\ DOMAIN x.v = {} -> <<"{", "}">>
\* ", ".join(repr(e) for e in xs)
JoinRepr(xs) ==
    IF Len(xs) = 0 THEN <<>>
    ELSE IF Len(xs) = 1 THEN Repr(xs[1])
    ELSE Repr(xs[1]) \o <<",", " ">> \o JoinRepr(Tail(xs))

\* str(x), also what an f-string field formats to
Str(x) == IF x.k = "str" THEN x.v ELSE Repr(x)

LowerChars == <<"a", "b", "c", "d", "e", "f", "g", "h", "i", "j", "k", "l", "m",
                "n", "o", "p", "q", "r", "s", "t", "u", "v", "w", "x", "y", "z">>
UpperChars == <<"A", "B", "C", "D", "E", "F", "G", "H", "I", "J", "K", "L", "M",
                "N", "O", "P", "Q", "R", "S", "T", "U", "V", "W", "X", "Y", "Z">>
Whitespace == {" ", "\t", "\n"}

UpperChar(c) ==
    IF \E i \in 1..Len(LowerChars) : LowerChars[i] = c
    THEN UpperChars[CHOOSE i \in 1..Len(LowerChars) : LowerChars[i] = c]
    ELSE c
LowerChar(c) ==
    IF \E i \in 1..Len(UpperChars) : UpperChars[i] = c
    THEN LowerChars[CHOOSE i \in 1..Len(UpperChars) : UpperChars[i] = c]
    ELSE c

\* s.upper(), s.lower()
Upper(s) == [i \in 1..Len(s) |-> UpperChar(s[i])]
Lower(s) == [i \in 1..Len(s) |-> LowerChar(s[i])]

RECURSIVE LStrip(_), RStrip(_)
LStrip(s) == IF Len(s) > 0 /\ s[1] \in Whitespace THEN LStrip(Tail(s)) ELSE s
RStrip(s) ==
    IF Len(s) > 0 /\ s[Len(s)] \in Whitespace
    THEN RStrip(SubSeq(s, 1, Len(s) - 1)) ELSE s
\* s.strip()
Strip(s) == RStrip(LStrip(s))

-----------------------------------------------------------------------------
(* _normalize_severity                                                     *)

\* the alias chain of an off-by-one table: INFORMATIONAL -> INFORMATION
NormalizeAliasChained(s) ==
    IF s \in {S_CRIT} THEN S_CRITICAL
    ELSE IF s \in {S_ERROR} THEN S_HIGH
    ELSE IF s \in {S_WARN} THEN S_WARNING
    ELSE IF s \in {S_WARNING} THEN S_MEDIUM
    ELSE IF s \in {S_INFORMATIONAL} THEN S_INFORMATION
    ELSE IF s \in {S_INFORMATION} THEN S_INFO
    ELSE IF s \in {S_Empty} THEN S_UNKNOWN
    ELSE s
\* lines 17-29: the alias table applied to the stripped, upper-cased string
NormalizeAlias(s) ==
    IF s \in {S_CRIT} THEN S_CRITICAL
    ELSE IF s \in {S_ERROR} THEN S_HIGH
    ELSE IF s \in {S_WARN, S_WARNING} THEN S_MEDIUM
    ELSE IF s \in {S_INFORMATION, S_INFORMATIONAL} THEN S_INFO
    ELSE IF s \in {S_Empty} THEN S_UNKNOWN
    ELSE s

\* str(sev) raises for no value json.load builds, so the except arm is not taken
_normalize_severity(sev) == NormalizeAlias(Upper(Strip(Str(sev))))

-----------------------------------------------------------------------------
(* load_json and the four parsers.  A call returns [exc, value] or         *)
(* [exc, findings]: exc is "none" or the type of the exception raised.     *)

NoValue == [k |-> "unset", v |-> 0]
Absent == [st |-> "absent", data |-> NoValue]
Unparseable(how) == [st |-> how, data |-> NoValue]
Loaded(doc) == [st |-> "ok", data |-> doc]

\* os.path.exists(os.path.join(report_dir, filename))
Exists(file) == file.st # "absent"

\* json.load raises JSONDecodeError on invalid JSON; open and read raise OSError;
\* reading bytes that are not UTF-8 raises UnicodeDecodeError, a ValueError the
\* except clause (JSONDecodeError, OSError, IOError) does not name
load_json(file, default) ==
    CASE file.st = "absent" -> [exc |-> "none", value |-> default, warned |-> FALSE]
      [] file.st = "ok" -> [exc |-> "none", value |-> file.data, warned |-> FALSE]
      [] file.st \in {"JSONDecodeError", "OSError"} ->
            [exc |-> "none", value |-> default, warned |-> TRUE]
      [] file.st = "UnicodeDecodeError" ->
            [exc |-> "UnicodeDecodeError", value |-> default, warned |-> FALSE]

NoException == [type |-> "none", at |-> "none"]
Ok(fs) == [exc |-> "none", findings |-> fs]
Raise(e) == [exc |-> e, findings |-> <<>>]

\* the results of the iterations of a loop body, in order: the first exception
\* ends the loop, otherwise the findings appended are concatenated
RECURSIVE Chain(_)
Chain(rs) ==
    IF Len(rs) = 0 THEN Ok(<<>>)
    ELSE IF rs[1].exc # "none" THEN rs[1]
    ELSE LET rest == Chain(Tail(rs))
         IN  IF rest.exc # "none" THEN rest ELSE Ok(rs[1].findings \o rest.findings)

\* `for e in x` raises TypeError unless x is a list, a str or a dict
Iterable(x) == x.k \in {"list", "str", "dict"}
\* the elements of `for e in x` that pass isinstance(e, dict): the characters of
\* a str and the keys of a dict are strs, so only a list has any
DictItems(x) == IF x.k = "list" THEN SelectSeq(x.v, LAMBDA e : e.k = "dict") ELSE <<>>

\* lines 182-195, one vulnerability
TrivyFinding(target, vuln) ==
    LET pkg == Or(Get(vuln, "PkgName", PyNone), PyStr(S_UnknownPackage))
        ver == Or(Get(vuln, "InstalledVersion", PyNone), PyStr(S_UnknownVersion))
        title == Or(Get(vuln, "Title", PyNone),
                    Or(Get(vuln, "VulnerabilityID", PyNone), PyStr(S_Vulnerability)))
    IN  [tool |-> PyStr(S_Trivy),
         severity |-> Or(Get(vuln, "Severity", PyNone), PyStr(S_UNKNOWN)),
         file |-> target,
         description |-> PyStr(Str(pkg) \o S_Space \o Str(ver) \o S_Dash \o Str(title)),
         fix |-> Or(Get(vuln, "FixedVersion", PyNone), PyStr(S_NoFixAvailable))]

\* lines 176-195, one element of Results
TrivyResult(res) ==
    LET target == Get(res, "Target", PyStr(S_Unknown))
        vulns == Or(Get(res, "Vulnerabilities", EmptyList), EmptyList)
        items == DictItems(vulns)
    IN  IF ~Iterable(vulns) THEN Raise("TypeError")
        ELSE Ok([i \in 1..Len(items) |-> TrivyFinding(target, items[i])])

\* lines 173-196 on the loaded value
TrivyFindings(data) ==
    IF isinstance(data, "dict") /\ "Results" \in DOMAIN data.v
    THEN LET results == Or(Get(data, "Results", EmptyList), EmptyList)
             items == DictItems(results)
         IN  IF ~Iterable(results) THEN Raise("TypeError")
             ELSE Chain([i \in 1..Len(items) |-> TrivyResult(items[i])])
    ELSE Ok(<<>>)

\* lines 204-217, one element of results
SemgrepResult(res) ==
    LET extra == Or(Get(res, "extra", PyNone), EmptyDict)
        start == Or(Get(res, "start", PyNone), EmptyDict)
    IN  IF ~isinstance(extra, "dict") \/ ~isinstance(start, "dict")
        THEN Raise("AttributeError")
        ELSE Ok(<<[tool |-> PyStr(S_Semgrep),
                   severity |-> Or(Get(extra, "severity", PyNone), PyStr(S_UNKNOWN)),
                   file |-> Or(Get(res, "path", PyNone), PyStr(S_Unknown)),
                   line |-> Get(start, "line", PyNone),
                   description |-> Or(Get(extra, "message", PyNone), PyStr(S_SemgrepFinding)),
                   rule_id |-> Or(Get(res, "check_id", PyNone), PyStr(S_Unknown))]>>)

\* lines 201-218 on the loaded value
SemgrepFindings(data) ==
    IF isinstance(data, "dict") /\ "results" \in DOMAIN data.v
    THEN LET results == Or(Get(data, "results", EmptyList), EmptyList)
             items == DictItems(results)
         IN  IF ~Iterable(results) THEN Raise("TypeError")
             ELSE Chain([i \in 1..Len(items) |-> SemgrepResult(items[i])])
    ELSE Ok(<<>>)

\* a parser that copies the matched text into the snippet
GitleaksFindingLeaky(leak) ==
    LET rule_id == Or(Get(leak, "RuleID", PyNone), PyStr(S_Unknown))
    IN  [tool |-> PyStr(S_Gitleaks),
         severity |-> PyStr(S_CRITICAL),
         file |-> Or(Get(leak, "File", PyNone), PyStr(S_Unknown)),
         line |-> Get(leak, "StartLine", PyNone),
         description |-> PyStr(S_SecretDetected \o Str(rule_id)),
         snippet |-> Or(Get(leak, "Secret", PyNone), PyStr(S_REDACTED))]
\* lines 228-238, one leak
GitleaksFinding(leak) ==
    LET rule_id == Or(Get(leak, "RuleID", PyNone), PyStr(S_Unknown))
    IN  [tool |-> PyStr(S_Gitleaks),
         severity |-> PyStr(S_CRITICAL),
         file |-> Or(Get(leak, "File", PyNone), PyStr(S_Unknown)),
         line |-> Get(leak, "StartLine", PyNone),
         description |-> PyStr(S_SecretDetected \o Str(rule_id)),
         snippet |-> PyStr(S_REDACTED)]

\* lines 223-239 on the loaded value
GitleaksFindings(data) ==
    IF isinstance(data, "list")
    THEN LET items == DictItems(data)
         IN  Ok([i \in 1..Len(items) |-> GitleaksFinding(items[i])])
    ELSE Ok(<<>>)

\* line 252 and risk_map.get(str(riskcode), "UNKNOWN")
risk_map(key) ==
    CASE key = <<"3">> -> S_HIGH
      [] key = <<"2">> -> S_MEDIUM
      [] key = <<"1">> -> S_LOW
      [] key = <<"0">> -> S_INFO
      [] OTHER -> S_UNKNOWN

\* lines 259-275, one alert
ZapFinding(alert) ==
    LET riskcode == Get(alert, "riskcode", PyNone)
        instances == Get(alert, "instances", PyNone)
        first == instances.v[1]
        target_url ==
            IF isinstance(instances, "list") /\ Truthy(instances)
               /\ isinstance(first, "dict")
            THEN Or(Get(first, "uri", PyNone), PyStr(S_URLTarget))
            ELSE PyStr(S_URLTarget)
    IN  [tool |-> PyStr(S_ZAP),
         severity |-> PyStr(risk_map(Str(riskcode))),
         file |-> target_url,
         description |-> Or(Get(alert, "alert", PyNone), PyStr(S_ZAPAlert)),
         solution |-> Get(alert, "solution", PyNone)]

\* lines 254-275, one site
ZapSite(site) ==
    LET alerts == Or(Get(site, "alerts", EmptyList), EmptyList)
        items == DictItems(alerts)
    IN  IF ~Iterable(alerts) THEN Raise("TypeError")
        ELSE Ok([i \in 1..Len(items) |-> ZapFinding(items[i])])

\* lines 244-276 on the loaded value
ZapFindings(data) ==
    IF ~isinstance(data, "dict") THEN Ok(<<>>)
    ELSE LET sites == Get(data, "site", PyNone)
             items == DictItems(sites)
         IN  IF ~isinstance(sites, "list") THEN Ok(<<>>)
             ELSE Chain([i \in 1..Len(items) |-> ZapSite(items[i])])

\* a parser call: l is what load_json did, r what the loops over its value did
Parsed(l, r) ==
    IF l.exc # "none" THEN [exc |-> l.exc, findings |-> <<>>, warned |-> FALSE]
    ELSE [exc |-> r.exc, findings |-> r.findings, warned |-> l.warned]

parse_trivy(dir) ==
    LET l == load_json(dir["trivy.json"], EmptyDict) IN Parsed(l, TrivyFindings(l.value))
parse_semgrep(dir) ==
    LET l == load_json(dir["semgrep.json"], EmptyDict) IN Parsed(l, SemgrepFindings(l.value))
parse_gitleaks(dir) ==
    LET l == load_json(dir["gitleaks.json"], EmptyList) IN Parsed(l, GitleaksFindings(l.value))
parse_zap(dir) ==
    LET l == load_json(dir["zap.json"], EmptyDict) IN Parsed(l, ZapFindings(l.value))

-----------------------------------------------------------------------------
(* Summary, verdict and sort key.  A finding is a record of Python values. *)

\* f.get(key, default) for a finding f
FGet(f, key, default) == IF key \in DOMAIN f THEN f[key] ELSE default

\* line 48
severities == <<S_CRITICAL, S_HIGH, S_MEDIUM, S_LOW, S_INFO, S_UNKNOWN>>
Canonical == {severities[i] : i \in 1..Len(severities)}

\* lines 53-55: the bucket a finding is counted under
Bucket(f) ==
    LET sev == _normalize_severity(FGet(f, "severity", PyStr(S_UNKNOWN)))
    IN  IF sev \notin Canonical THEN S_UNKNOWN ELSE sev

\* lines 32-43, tool a str
_category_for_tool(tool) ==
    LET t == Lower(Strip(IF Len(tool) > 0 THEN tool ELSE S_Empty))
    IN  IF t = S_gitleaks THEN S_Secrets
        ELSE IF t = S_semgrep THEN S_Code
        ELSE IF t = S_trivy THEN S_Deps
        ELSE IF t = S_zap THEN S_ZAP
        ELSE IF Len(tool) > 0 THEN tool ELSE S_Other

\* a breakdown that counts only the four known categories
BreakdownAddKnown(breakdown_for_sev, category) ==
    IF category \in {S_Secrets, S_Code, S_Deps, S_ZAP}
    THEN (category :> ((IF category \in DOMAIN breakdown_for_sev
                           THEN breakdown_for_sev[category] ELSE 0) + 1))
            @@ breakdown_for_sev
    ELSE breakdown_for_sev
\* line 60: breakdown_for_sev[category] = breakdown_for_sev.get(category, 0) + 1
BreakdownAdd(breakdown_for_sev, category) ==
    (category :> ((IF category \in DOMAIN breakdown_for_sev
                      THEN breakdown_for_sev[category] ELSE 0) + 1))
        @@ breakdown_for_sev

\* lines 52-60: the loop over the findings, acc the counts and breakdown so far
RECURSIVE SummaryLoop(_, _)
SummaryLoop(findings, acc) ==
    IF Len(findings) = 0 THEN acc
    ELSE LET f == Head(findings)
             sev == Bucket(f)
             category == _category_for_tool(Str(FGet(f, "tool", PyStr(S_Other))))
         IN  SummaryLoop(Tail(findings),
                 [counts |-> [acc.counts EXCEPT ![sev] = @ + 1],
                  breakdown |-> [acc.breakdown EXCEPT
                                    ![sev] = BreakdownAdd(acc.breakdown[sev], category)]])

\* lines 46-66
_compute_human_summary(findings) ==
    LET done == SummaryLoop(findings, [counts |-> [s \in Canonical |-> 0],
                                       breakdown |-> [s \in Canonical |-> <<>>]])
    IN  [counts |-> done.counts, breakdown |-> done.breakdown, total |-> Len(findings)]

\* a gate that also fails the run on HIGH findings
print_human_summary_high(findings, gate) ==
    LET counts == _compute_human_summary(findings).counts
    IN  IF gate THEN counts[S_CRITICAL] # 0 \/ counts[S_HIGH] # 0 ELSE FALSE
\* lines 84-92 and 152: the value returned; both renderings print the same verdict
print_human_summary(findings, gate) ==
    LET counts == _compute_human_summary(findings).counts
        critical == counts[S_CRITICAL]
    IN  IF gate THEN critical # 0 ELSE FALSE

\* lines 292-302
_severity_key(item) ==
    LET sev_str == _normalize_severity(FGet(item, "severity", PyStr(S_UNKNOWN)))
    IN  IF \E i \in 1..Len(severities) : severities[i] = sev_str
        THEN (CHOOSE i \in 1..Len(severities) : severities[i] = sev_str) - 1
        ELSE 5

\* list.sort(key=_severity_key) is stable: an element goes after every element
\* whose key is not greater
RECURSIVE InsertByKey(_, _)
InsertByKey(sorted, x) ==
    IF Len(sorted) = 0 THEN <<x>>
    ELSE IF _severity_key(sorted[Len(sorted)]) <= _severity_key(x) THEN Append(sorted, x)
    ELSE Append(InsertByKey(SubSeq(sorted, 1, Len(sorted) - 1), x), sorted[Len(sorted)])

RECURSIVE SortByKey(_)
SortByKey(xs) ==
    IF Len(xs) = 0 THEN <<>>
    ELSE InsertByKey(SortByKey(SubSeq(xs, 1, Len(xs) - 1)), xs[Len(xs)])

\* a sort that puts an element before the elements of equal key
RECURSIVE InsertBeforeEqual(_, _)
InsertBeforeEqual(sorted, x) ==
    IF Len(sorted) = 0 THEN <<x>>
    ELSE IF _severity_key(sorted[Len(sorted)]) < _severity_key(x) THEN Append(sorted, x)
    ELSE Append(InsertBeforeEqual(SubSeq(sorted, 1, Len(sorted) - 1), x),
                sorted[Len(sorted)])
RECURSIVE SortUnstable(_)
SortUnstable(xs) ==
    IF Len(xs) = 0 THEN <<>>
    ELSE InsertBeforeEqual(SortUnstable(SubSeq(xs, 1, Len(xs) - 1)), xs[Len(xs)])

\* line 322 with an unstable sort
SortedFindingsUnstable(fs) == SortUnstable(fs)
\* line 322
SortedFindings(fs) == SortByKey(fs)

\* lines 319-320 dropping the findings whose severity is not canonical
NormalizedFindingsDropping(fs) ==
    LET keep == SelectSeq(fs, LAMBDA f : Bucket(f) = _normalize_severity(f.severity))
    IN  [i \in 1..Len(keep) |->
            [severity |-> PyStr(_normalize_severity(keep[i].severity))] @@ keep[i]]
\* lines 319-320
NormalizedFindings(fs) ==
    [i \in 1..Len(fs) |->
        [severity |-> PyStr(_normalize_severity(FGet(fs[i], "severity", PyStr(S_UNKNOWN))))]
            @@ fs[i]]

FileNames == <<"trivy.json", "semgrep.json", "gitleaks.json", "zap.json">>
ToolNames == <<PyStr(S_Trivy), PyStr(S_Semgrep), PyStr(S_Gitleaks), PyStr(S_ZAP)>>

\* tools_run listing the tools whose file loaded
ToolsRunLoaded(dir) ==
    LET idx == SelectSeq(<<1, 2, 3, 4>>, LAMBDA i : dir[FileNames[i]].st = "ok")
    IN  [j \in 1..Len(idx) |-> ToolNames[idx[j]]]
\* lines 324-332
ToolsRun(dir) ==
    LET idx == SelectSeq(<<1, 2, 3, 4>>, LAMBDA i : Exists(dir[FileNames[i]]))
    IN  [j \in 1..Len(idx) |-> ToolNames[idx[j]]]

\* lines 334-340
Report(findings, dir) ==
    [summary |-> [total_issues |-> Len(findings), tools_run |-> ToolsRun(dir)],
     findings |-> findings]

-----------------------------------------------------------------------------
(* main, one action per statement group.                                   *)

ParseStep(r, next) ==
    /\ IF r.exc # "none"
       THEN /\ pc' = "raised"
            /\ exc' = [type |-> r.exc, at |-> pc]
            /\ UNCHANGED <<all_findings, warnings>>
       ELSE /\ pc' = next
            /\ all_findings' = all_findings \o r.findings
            /\ warnings' = IF r.warned THEN Append(warnings, pc) ELSE warnings
            /\ UNCHANGED exc
    /\ UNCHANGED <<files, report, summary, failed, fail_on_critical, exit_code, sev_arg,
                   sev_ret>>

\* line 313
ParseTrivy == pc = "trivy.json" /\ ParseStep(parse_trivy(files), "semgrep.json")
\* line 314
ParseSemgrep == pc = "semgrep.json" /\ ParseStep(parse_semgrep(files), "gitleaks.json")
\* line 315
ParseGitleaks == pc = "gitleaks.json" /\ ParseStep(parse_gitleaks(files), "zap.json")
\* line 316
ParseZap == pc = "zap.json" /\ ParseStep(parse_zap(files), "normalize")

\* lines 319-320
NormalizeSeverities ==
    /\ pc = "normalize"
    /\ all_findings' = NormalizedFindings(all_findings)
    /\ pc' = "sort"
    /\ UNCHANGED <<files, warnings, report, summary, failed, fail_on_critical, exit_code,
                   exc, sev_arg, sev_ret>>

\* line 322
SortFindings ==
    /\ pc = "sort"
    /\ all_findings' = SortedFindings(all_findings)
    /\ pc' = "write"
    /\ UNCHANGED <<files, warnings, report, summary, failed, fail_on_critical, exit_code,
                   exc, sev_arg, sev_ret>>

\* lines 324-349; the output path is taken to be writable
WriteReport ==
    /\ pc = "write"
    /\ report' = Report(all_findings, files)
    /\ pc' = "summary"
    /\ UNCHANGED <<files, all_findings, warnings, summary, failed, fail_on_critical,
                   exit_code, exc, sev_arg, sev_ret>>

\* lines 351-352
SummaryAndExit ==
    /\ pc = "summary"
    /\ summary' = _compute_human_summary(all_findings)
    /\ failed' = PyBool(print_human_summary(all_findings, fail_on_critical))
    /\ exit_code' = PyInt(IF failed'.v THEN 1 ELSE 0)
    /\ pc' = "done"
    /\ UNCHANGED <<files, all_findings, warnings, report, fail_on_critical, exc,
                   sev_arg, sev_ret>>

\* a direct call print_human_summary(findings=..., fail_on_critical=...)
CallPrintHumanSummary ==
    /\ pc = "call print_human_summary"
    /\ summary' = _compute_human_summary(all_findings)
    /\ failed' = PyBool(print_human_summary(all_findings, fail_on_critical))
    /\ pc' = "returned"
    /\ UNCHANGED <<files, all_findings, warnings, report, fail_on_critical, exit_code, exc,
                   sev_arg, sev_ret>>

\* a direct call _compute_human_summary(findings)
CallComputeHumanSummary ==
    /\ pc = "call _compute_human_summary"
    /\ summary' = _compute_human_summary(all_findings)
    /\ pc' = "summarized"
    /\ UNCHANGED <<files, all_findings, warnings, report, failed, fail_on_critical, exit_code,
                   exc, sev_arg, sev_ret>>

\* a call _normalize_severity(x), x the argument or the previous result
CallNormalizeSeverity ==
    /\ pc = "call _normalize_severity"
    /\ Len(sev_ret) < 2
    /\ sev_ret' = Append(sev_ret,
                         _normalize_severity(IF Len(sev_ret) = 0 THEN sev_arg
                                             ELSE PyStr(sev_ret[Len(sev_ret)])))
    /\ UNCHANGED <<files, pc, all_findings, warnings, report, summary, failed,
                   fail_on_critical, exit_code, exc, sev_arg>>

-----------------------------------------------------------------------------
(* Inputs: the documents found in report_dir.                              *)

SeqsUpTo(S, n) == UNION {[1..m -> S] : m \in 0..n}
PyLists(S, n) == {PyList(s) : s \in SeqsUpTo(S, n)}
\* a key that is absent, or present with one of vals
Field(key, vals) == {<<>>} \cup {key :> x : x \in vals}
Str1(c) == PyStr(<<c>>)

\* JSON values of every kind, where a document expects a container or a string
JsonValues ==
    {PyNone, PyBool(TRUE), PyBool(FALSE), PyInt(0), PyInt(5), PyStr(S_Empty),
     PyStr(<<"a", "b">>), EmptyList, EmptyDict, PyList(<<PyInt(1)>>)}

\* what a scanner may put where a severity is expected
SevRaw ==
    {PyNone, PyStr(S_HIGH), PyStr(Lower(S_CRIT)), PyStr(S_MODERATE), PyStr(S_LOW),
     PyInt(5), PyBool(TRUE), PyList(<<PyStr(S_HIGH)>>)}

UnparseableFiles ==
    {Unparseable("JSONDecodeError"), Unparseable("OSError"), Unparseable("UnicodeDecodeError")}

\* trivy.json
TrivyVulnFull ==
    PyDict([PkgName |-> Str1("p"), InstalledVersion |-> Str1("1"), Title |-> Str1("t"),
            VulnerabilityID |-> Str1("c"), Severity |-> PyStr(S_HIGH),
            FixedVersion |-> Str1("2")])
TrivyVulns ==
    {PyDict(s) : s \in Field("Severity", SevRaw)}
        \cup {PyDict(("VulnerabilityID" :> Str1("c")) @@ ("PkgName" :> PyInt(5)))}
        \cup {TrivyVulnFull, PyInt(7)}
TrivyTargets == Field("Target", {PyNone, PyStr(S_Empty), Str1("t")})
TrivyResults ==
    {PyDict(t @@ v) : t \in TrivyTargets,
                      v \in Field("Vulnerabilities",
                                  {PyNone, PyInt(7), PyStr(<<"a", "b">>)}
                                      \cup PyLists(TrivyVulns, MaxItems))}
        \cup {PyInt(7)}
TrivyFewResults ==
    {PyDict([Target |-> Str1("t"), Vulnerabilities |-> PyList(<<TrivyVulnFull>>)]),
     PyDict([Target |-> Str1("u"),
             Vulnerabilities |-> PyList(<<PyDict([Severity |-> PyStr(S_MODERATE)])>>)]),
     PyDict([Vulnerabilities |-> PyInt(7)]),
     PyStr(<<"a", "b">>)}
TrivyDocs ==
    JsonValues
        \cup {PyDict([Results |-> r]) : r \in JsonValues}
        \cup {PyDict([Results |-> PyList(<<r>>)]) : r \in TrivyResults}
        \cup {PyDict([Results |-> r]) : r \in PyLists(TrivyFewResults, MaxItems)}

\* semgrep.json
SemgrepExtras ==
    {PyNone, Str1("x"), EmptyDict}
        \cup {PyDict(s @@ m) : s \in Field("severity", SevRaw \cup {PyStr(S_ERROR)}),
                               m \in Field("message", {PyStr(S_Empty), Str1("m")})}
SemgrepResults ==
    {PyDict(e @@ s @@ p @@ c) :
        e \in Field("extra", SemgrepExtras),
        s \in Field("start", {PyList(<<PyInt(1)>>), EmptyDict, PyDict([line |-> PyInt(3)])}),
        p \in Field("path", {PyNone, PyStr(S_Empty), Str1("f")}),
        c \in Field("check_id", {Str1("r")})}
        \cup {PyInt(7)}
SemgrepFewResults ==
    {PyDict([extra |-> PyDict([severity |-> PyStr(S_ERROR), message |-> Str1("m")]),
             path |-> Str1("f"), start |-> PyDict([line |-> PyInt(3)]),
             check_id |-> Str1("r")]),
     PyDict([extra |-> PyDict([severity |-> PyStr(S_WARNING)])]),
     PyDict([extra |-> Str1("x")]),
     PyInt(7)}
SemgrepDocs ==
    JsonValues
        \cup {PyDict([results |-> r]) : r \in JsonValues}
        \cup {PyDict([results |-> PyList(<<r>>)]) : r \in SemgrepResults}
        \cup {PyDict([results |-> r]) : r \in PyLists(SemgrepFewResults, MaxItems)}

\* gitleaks.json
GitleaksLeaks ==
    {PyDict(r @@ f @@ l @@ s @@ m) :
        r \in Field("RuleID", {PyNone, Str1("r"), PyInt(5)}),
        f \in Field("File", {PyStr(S_Empty), Str1("f")}),
        l \in Field("StartLine", {PyInt(3)}),
        s \in Field("Secret", {Str1("s")}),
        m \in Field("Match", {PyStr(<<"k", "=", "s">>)})}
        \cup JsonValues
GitleaksFewLeaks ==
    {PyDict([RuleID |-> Str1("r"), File |-> Str1("f"), StartLine |-> PyInt(3),
             Secret |-> Str1("s")]),
     PyDict([RuleID |-> Str1("q"), Severity |-> PyStr(S_LOW)]),
     PyInt(7)}
GitleaksDocs ==
    JsonValues
        \cup {PyList(<<l>>) : l \in GitleaksLeaks}
        \cup PyLists(GitleaksFewLeaks, MaxItems)

\* zap.json
ZapInstances ==
    {PyNone, PyInt(5), EmptyList, EmptyDict, PyList(<<PyInt(5)>>), PyList(<<EmptyDict>>),
     PyList(<<PyDict([uri |-> PyStr(S_Empty)])>>),
     PyList(<<PyDict([uri |-> Str1("u")]), PyDict([uri |-> Str1("w")])>>)}
ZapAlerts ==
    {PyDict(r @@ a @@ s @@ i) :
        r \in Field("riskcode", {PyNone, Str1("3"), Str1("2"), Str1("1"), Str1("0"),
                                 Str1("9"), PyInt(3), EmptyList}),
        a \in Field("alert", {PyStr(S_Empty), Str1("a")}),
        s \in Field("solution", {Str1("s")}),
        i \in Field("instances", ZapInstances)}
        \cup {PyInt(7)}
ZapFewAlerts ==
    {PyDict([riskcode |-> Str1("3"), alert |-> Str1("a"),
             instances |-> PyList(<<PyDict([uri |-> Str1("u")])>>)]),
     PyDict([riskcode |-> Str1("9")]),
     PyInt(7)}
ZapSites ==
    {PyDict(a) : a \in Field("alerts", {PyNone, PyInt(5), PyStr(<<"a", "b">>)}
                                           \cup PyLists(ZapFewAlerts, MaxItems))}
        \cup {PyDict([alerts |-> PyList(<<a>>)]) : a \in ZapAlerts}
        \cup {PyInt(7)}
ZapFewSites ==
    {PyDict([alerts |-> PyList(<<PyDict([riskcode |-> Str1("2")])>>)]),
     PyDict([alerts |-> PyInt(5)]),
     PyInt(7)}
ZapDocs ==
    JsonValues
        \cup {PyDict([site |-> s]) : s \in JsonValues}
        \cup {PyDict([site |-> PyList(<<s>>)]) : s \in ZapSites}
        \cup {PyDict([site |-> s]) : s \in PyLists(ZapFewSites, MaxItems)}

FilesOf(docs) == {Absent} \cup UnparseableFiles \cup {Loaded(d) : d \in docs}

\* report_dir holding at most one of the four files
OneFileDirs ==
    LET none == [n \in {FileNames[i] : i \in 1..4} |-> Absent]
    IN  {[none EXCEPT !["trivy.json"] = f] : f \in FilesOf(TrivyDocs)}
        \cup {[none EXCEPT !["semgrep.json"] = f] : f \in FilesOf(SemgrepDocs)}
        \cup {[none EXCEPT !["gitleaks.json"] = f] : f \in FilesOf(GitleaksDocs)}
        \cup {[none EXCEPT !["zap.json"] = f] : f \in FilesOf(ZapDocs)}

\* report_dir with all four files varying
MainTrivyDocs ==
    {PyDict([Results |-> PyList(<<PyDict([Target |-> Str1("t"), Vulnerabilities |-> v])>>)]) :
        v \in PyLists({PyDict([PkgName |-> Str1("p"), Severity |-> PyStr(S_HIGH)]),
                       PyDict([Severity |-> PyStr(Lower(S_CRIT))]),
                       PyDict([Severity |-> PyStr(S_MODERATE)])}, MaxMainItems)}
        \cup {PyDict([Results |-> PyList(<<
                 PyDict([Target |-> PyNone,
                         Vulnerabilities |-> PyList(<<PyDict([Severity |-> PyStr(S_MODERATE)]),
                                                      PyDict([PkgName |-> Str1("p")]),
                                                      PyDict([Severity |-> PyStr(S_HIGH)])>>)]),
                 PyDict([Target |-> Str1("u"),
                         Vulnerabilities |-> PyList(<<PyDict([Severity |-> PyStr(S_HIGH)])>>)])
              >>)]),
              PyDict([Results |-> PyInt(5)])}
MainSemgrepDocs ==
    {PyDict([results |-> r]) :
        r \in PyLists({PyDict([extra |-> PyDict([severity |-> PyStr(S_ERROR),
                                                  message |-> Str1("m")]),
                               path |-> Str1("f")]),
                       PyDict([extra |-> PyDict([severity |-> PyStr(<<"x">>)])])},
                      MaxMainItems)}
        \cup {PyDict([results |-> PyList(<<PyDict([extra |-> Str1("x")])>>)])}
MainGitleaksDocs ==
    PyLists({PyDict([RuleID |-> Str1("r"), File |-> Str1("f"), Secret |-> Str1("s")]),
             PyDict(<<>>)}, MaxMainItems)
MainZapDocs ==
    {PyDict([site |-> PyList(<<PyDict([alerts |-> a])>>)]) :
        a \in PyLists({PyDict([riskcode |-> Str1("3"), alert |-> Str1("a")]),
                       PyDict([riskcode |-> Str1("9")])}, MaxMainItems)}
        \cup {PyDict([site |-> PyList(<<PyDict([alerts |-> PyInt(5)])>>)])}

AllFilesDirs ==
    {[n \in {FileNames[i] : i \in 1..4} |->
        CASE n = "trivy.json" -> t [] n = "semgrep.json" -> s
          [] n = "gitleaks.json" -> g [] n = "zap.json" -> z] :
        t \in FilesOf(MainTrivyDocs), s \in FilesOf(MainSemgrepDocs),
        g \in FilesOf(MainGitleaksDocs), z \in FilesOf(MainZapDocs)}

\* severity tokens in three spellings, with whitespace around them
Capitalize(s) == IF Len(s) = 0 THEN s ELSE <<UpperChar(s[1])>> \o Lower(Tail(s))
SeverityTokens ==
    Canonical \cup {S_CRIT, S_ERROR, S_WARN, S_WARNING, S_INFORMATION, S_INFORMATIONAL,
                    S_MODERATE, S_Empty, <<"W", "A", "R", "N", " ", "I", "N", "G">>, <<"5">>}
SeverityStrings ==
    {l \o c \o r : l \in SeqsUpTo(Whitespace, MaxPad), r \in SeqsUpTo(Whitespace, MaxPad),
                   c \in UNION {{t, Lower(t), Capitalize(t)} : t \in SeverityTokens}}
SeverityArgs ==
    {PyStr(s) : s \in SeverityStrings} \cup {PyNone, PyInt(5), PyBool(TRUE), EmptyList}

\* findings lists handed to print_human_summary by a caller other than main
SummaryFindings ==
    {[tool |-> PyStr(S_Trivy)]}
        \cup {[tool |-> PyStr(S_Trivy), severity |-> s] :
                s \in {PyStr(S_CRITICAL), PyStr(Lower(S_CRIT)), PyStr(S_HIGH),
                       PyStr(S_MODERATE), PyNone}}
SummaryLists == SeqsUpTo(SummaryFindings, MaxSummaryLen)

\* findings lists handed to _compute_human_summary: tools of every category,
\* re-cased and padded, unknown, empty, missing and not a str
BreakdownFindings ==
    {[tool |-> t, severity |-> v] :
        t \in {PyStr(S_Trivy), PyStr(<<" ">> \o Upper(S_gitleaks) \o <<"\t">>),
               PyStr(<<"B", "a", "n">>)},
        v \in {PyStr(S_CRITICAL), PyStr(Lower(S_CRIT)), PyStr(S_MODERATE)}}
        \cup {[severity |-> PyStr(S_HIGH)],
              [tool |-> PyStr(S_Empty)],
              [tool |-> PyStr(S_Semgrep), severity |-> PyStr(S_ERROR)],
              [tool |-> PyStr(S_ZAP), severity |-> PyStr(S_INFO)],
              [tool |-> PyStr(<<" ">>), severity |-> PyStr(S_LOW)],
              [tool |-> PyInt(5), severity |-> PyInt(5)]}
BreakdownLists == SeqsUpTo(BreakdownFindings, MaxBreakdownLen)

-----------------------------------------------------------------------------
(* Specifications.                                                         *)

InitRun(dirs) ==
    /\ files \in dirs
    /\ pc = "trivy.json"
    /\ all_findings = <<>>
    /\ warnings = <<>>
    /\ report = NoValue
    /\ summary = NoValue
    /\ failed = NoValue
    /\ fail_on_critical = TRUE
    /\ exit_code = NoValue
    /\ exc = NoException
    /\ sev_arg = NoValue
    /\ sev_ret = <<>>

\* main on a report_dir with all four files varying
Init == InitRun(AllFilesDirs)
\* main on a report_dir with one file of any shape
InitOneFile == InitRun(OneFileDirs)

\* print_human_summary called on a findings list
InitSummaryCall ==
    /\ files = [n \in {FileNames[i] : i \in 1..4} |-> Absent]
    /\ pc = "call print_human_summary"
    /\ all_findings \in SummaryLists
    /\ warnings = <<>>
    /\ report = NoValue
    /\ summary = NoValue
    /\ failed = NoValue
    /\ fail_on_critical \in BOOLEAN
    /\ exit_code = NoValue
    /\ exc = NoException
    /\ sev_arg = NoValue
    /\ sev_ret = <<>>
InitVerdict == InitSummaryCall \/ Init

\* _compute_human_summary called on a findings list
InitSummary ==
    /\ files = [n \in {FileNames[i] : i \in 1..4} |-> Absent]
    /\ pc = "call _compute_human_summary"
    /\ all_findings \in BreakdownLists
    /\ warnings = <<>>
    /\ report = NoValue
    /\ summary = NoValue
    /\ failed = NoValue
    /\ fail_on_critical = TRUE
    /\ exit_code = NoValue
    /\ exc = NoException
    /\ sev_arg = NoValue
    /\ sev_ret = <<>>

\* _normalize_severity called on a value
InitNormalize ==
    /\ files = [n \in {FileNames[i] : i \in 1..4} |-> Absent]
    /\ pc = "call _normalize_severity"
    /\ all_findings = <<>>
    /\ warnings = <<>>
    /\ report = NoValue
    /\ summary = NoValue
    /\ failed = NoValue
    /\ fail_on_critical = TRUE
    /\ exit_code = NoValue
    /\ exc = NoException
    /\ sev_arg \in SeverityArgs
    /\ sev_ret = <<>>

Next ==
    \/ ParseTrivy
    \/ ParseSemgrep
    \/ ParseGitleaks
    \/ ParseZap
    \/ NormalizeSeverities
    \/ SortFindings
    \/ WriteReport
    \/ SummaryAndExit
NextVerdict == Next \/ CallPrintHumanSummary
NextNormalize == CallNormalizeSeverity
NextSummary == CallComputeHumanSummary

Spec == Init /\ [][Next]_vars
SpecOneFile == InitOneFile /\ [][Next]_vars
SpecVerdict == InitVerdict /\ [][NextVerdict]_vars
SpecNormalize == InitNormalize /\ [][NextNormalize]_vars
SpecSummary == InitSummary /\ [][NextSummary]_vars

-----------------------------------------------------------------------------
(* Properties.                                                             *)

\* the report has been written to output_file
ReportWritten == pc \in {"summary", "done"}
\* gitleaks.json has been parsed and its findings appended
GitleaksParsed ==
    /\ pc \in {"zap.json", "normalize", "sort", "write", "summary", "done", "raised"}
    /\ pc = "raised" => exc.at = "zap.json"
\* what the four parsers return, concatenated in the order of lines 313-316
ParserOutputs ==
    parse_trivy(files).findings \o parse_semgrep(files).findings
        \o parse_gitleaks(files).findings \o parse_zap(files).findings
\* the rank the report's ordering is stated in; a severity not listed ranks last
ClaimRank(sev) ==
    CASE sev = S_CRITICAL -> 0
      [] sev = S_HIGH -> 1
      [] sev = S_MEDIUM -> 2
      [] sev = S_LOW -> 3
      [] sev = S_INFO -> 4
      [] OTHER -> 5
Count(x, seq) == Cardinality({i \in 1..Len(seq) : seq[i] = x})
IsPermutation(a, b) ==
    /\ Len(a) = Len(b)
    /\ \A i \in 1..Len(a) : Count(a[i], a) = Count(a[i], b)
IsGitleaks(f) == f.tool = PyStr(S_Gitleaks)
HasCritical(fs) ==
    \E i \in 1..Len(fs) :
        _normalize_severity(FGet(fs[i], "severity", PyStr(S_UNKNOWN))) = S_CRITICAL

\* C1: every finding of the written report has one of the six canonical
\* severities (an unrecognized scanner token appears as UNKNOWN).
C1_SeverityCanonical ==
    ReportWritten =>
        \A i \in 1..Len(report.findings) :
            /\ report.findings[i].severity.k = "str"
            /\ report.findings[i].severity.v \in Canonical

\* C2: print_human_summary returns failed exactly when the gate is enabled and
\* some finding's normalized severity is CRITICAL (so findings of any other
\* severity, and a disabled gate, never make it fail), and main returns 1
\* exactly when the report holds a CRITICAL finding.
C2_VerdictIffCritical ==
    /\ pc \in {"returned", "done"} =>
          (failed.v <=> (fail_on_critical /\ HasCritical(all_findings)))
    /\ pc = "done" =>
          /\ exit_code.v \in {0, 1}
          /\ exit_code.v = 1 <=> HasCritical(report.findings)
C2_Witness ==
    /\ pc = "returned"
    /\ fail_on_critical
    /\ failed.v
    /\ Len(all_findings) = 3
    /\ FGet(all_findings[1], "severity", PyNone) = PyStr(S_HIGH)
    /\ FGet(all_findings[2], "severity", PyNone) = PyStr(Lower(S_CRIT))
    /\ "severity" \notin DOMAIN all_findings[3]

\* C3: a parser raises on no successfully loaded JSON value: a run that ends
\* in an exception did not get it from a parser whose file loaded.
C3_ParsersNeverRaise == pc = "raised" => files[exc.at].st # "ok"

\* C4: an absent or unparseable file never ends the run; it contributes no
\* finding, each unparseable file is warned about, and the report counts
\* exactly the findings the loaded files contribute on their own.
C4_UnparseableIsNonFatal ==
    /\ pc = "raised" => files[exc.at].st = "ok"
    /\ ReportWritten =>
          /\ warnings = SelectSeq(FileNames,
                                  LAMBDA n : files[n].st \notin {"absent", "ok"})
          /\ report.summary.total_issues =
                (IF files["trivy.json"].st = "ok"
                    THEN Len(TrivyFindings(files["trivy.json"].data).findings) ELSE 0)
                + (IF files["semgrep.json"].st = "ok"
                    THEN Len(SemgrepFindings(files["semgrep.json"].data).findings) ELSE 0)
                + (IF files["gitleaks.json"].st = "ok"
                    THEN Len(GitleaksFindings(files["gitleaks.json"].data).findings) ELSE 0)
                + (IF files["zap.json"].st = "ok"
                    THEN Len(ZapFindings(files["zap.json"].data).findings) ELSE 0)

\* C5: the report's findings are in non-decreasing rank order, and the findings
\* of each rank are in the order the parsers emitted them (Trivy, Semgrep,
\* Gitleaks, ZAP, and document order within a tool).
C5_SortedStable ==
    ReportWritten =>
        LET fs == report.findings
            emitted == NormalizedFindings(ParserOutputs)
        IN  /\ \A i, j \in 1..Len(fs) :
                  i < j => ClaimRank(fs[i].severity.v) <= ClaimRank(fs[j].severity.v)
            /\ \A r \in 0..5 :
                  SelectSeq(fs, LAMBDA f : ClaimRank(f.severity.v) = r)
                      = SelectSeq(emitted, LAMBDA f : ClaimRank(f.severity.v) = r)
C5_Witness ==
    /\ pc = "done"
    /\ report.findings # NormalizedFindings(ParserOutputs)
    /\ \E i, j \in 1..Len(report.findings) :
          /\ i < j
          /\ report.findings[i] # report.findings[j]
          /\ report.findings[i].severity = report.findings[j].severity
          /\ report.findings[i].tool # report.findings[j].tool
    /\ \E i, j \in 1..Len(report.findings) :
          /\ i < j
          /\ report.findings[i] # report.findings[j]
          /\ ClaimRank(report.findings[i].severity.v) = ClaimRank(report.findings[j].severity.v)
          /\ report.findings[i].tool = report.findings[j].tool

\* C6: tools_run lists, in the order Trivy, Semgrep, Gitleaks, ZAP, exactly the
\* tools whose file exists, whether or not it parsed or produced a finding.
C6_ToolsRunIsFilesPresent ==
    ReportWritten =>
        LET present == SelectSeq(<<1, 2, 3, 4>>,
                                 LAMBDA i : files[FileNames[i]].st # "absent")
        IN  report.summary.tools_run = [j \in 1..Len(present) |-> ToolNames[present[j]]]
C6_Witness ==
    /\ pc = "done"
    /\ files["trivy.json"].st = "JSONDecodeError"
    /\ files["semgrep.json"].st = "absent"
    /\ files["gitleaks.json"].st = "ok"
    /\ files["gitleaks.json"].data = EmptyList
    /\ files["zap.json"].st = "ok"
    /\ Len(report.findings) > 0

\* C7: every finding emitted for a gitleaks.json entry is CRITICAL with snippet
\* "REDACTED", at the parser's output and in the report, and the findings are
\* those of the entries cut down to RuleID, File and StartLine.
Projected(leak) ==
    PyDict([key \in DOMAIN leak.v \cap {"RuleID", "File", "StartLine"} |-> leak.v[key]])
C7_SecretsRedacted ==
    /\ GitleaksParsed =>
          /\ \A i \in 1..Len(all_findings) :
                IsGitleaks(all_findings[i]) =>
                    /\ all_findings[i].severity = PyStr(S_CRITICAL)
                    /\ all_findings[i].snippet = PyStr(S_REDACTED)
          /\ SelectSeq(all_findings, IsGitleaks) =
                (IF files["gitleaks.json"].st = "ok"
                    /\ isinstance(files["gitleaks.json"].data, "list")
                 THEN LET leaks == DictItems(files["gitleaks.json"].data)
                      IN  [i \in 1..Len(leaks) |-> GitleaksFinding(Projected(leaks[i]))]
                 ELSE <<>>)
    /\ ReportWritten =>
          \A i \in 1..Len(report.findings) :
              IsGitleaks(report.findings[i]) =>
                  /\ report.findings[i].severity = PyStr(S_CRITICAL)
                  /\ report.findings[i].snippet = PyStr(S_REDACTED)
C7_Witness ==
    /\ pc = "done"
    /\ files["gitleaks.json"].st = "ok"
    /\ isinstance(files["gitleaks.json"].data, "list")
    /\ \E i \in 1..Len(files["gitleaks.json"].data.v) :
          LET leak == files["gitleaks.json"].data.v[i]
          IN  /\ isinstance(leak, "dict")
              /\ {"Secret", "Match", "RuleID"} \subseteq DOMAIN leak.v
    /\ Len(report.findings) > 0

\* C8: the report's findings are a permutation of the parsers' findings with
\* only severity replaced by its normalized value, and total_issues is the
\* number of findings the parsers emitted.
C8_OnlyReordered ==
    ReportWritten =>
        LET raw == ParserOutputs
            expected == [i \in 1..Len(raw) |->
                            [raw[i] EXCEPT !.severity =
                                PyStr(_normalize_severity(raw[i].severity))]]
        IN  /\ IsPermutation(report.findings, expected)
            /\ report.summary.total_issues = Len(raw)
C8_Witness ==
    /\ pc = "done"
    /\ Len(report.findings) >= 3
    /\ report.findings # ParserOutputs
    /\ \E i \in 1..Len(ParserOutputs) :
          /\ ParserOutputs[i].severity = PyStr(Lower(S_CRIT))
          /\ report.findings[1].severity = PyStr(S_CRITICAL)
          /\ report.findings[1].tool = ParserOutputs[i].tool
    /\ \E i \in 1..Len(ParserOutputs) : ParserOutputs[i].severity = Str1("x")

\* C9: _normalize_severity is idempotent: applied to its own result it
\* returns that result.
C9_NormalizeIdempotent == Len(sev_ret) = 2 => sev_ret[2] = sev_ret[1]
C9_Witness ==
    /\ Len(sev_ret) = 2
    /\ sev_arg = PyStr(<<"\t">> \o Capitalize(S_INFORMATIONAL) \o <<" ">>)
    /\ sev_ret[1] = S_INFO

\* C10: every finding the parsers emit has a non-empty tool, a non-empty
\* description and a file that is present, not None and not empty.
C10_FieldsNonEmpty ==
    pc = "normalize" =>
        \A i \in 1..Len(all_findings) :
            LET f == all_findings[i]
            IN  /\ {"tool", "description", "file"} \subseteq DOMAIN f
                /\ Truthy(f.tool)
                /\ Truthy(f.description)
                /\ Truthy(f.file)

\* the sum of f over its domain
RECURSIVE SumOf(_)
SumOf(f) ==
    IF DOMAIN f = {} THEN 0
    ELSE LET x == CHOOSE y \in DOMAIN f : TRUE
         IN  f[x] + SumOf([y \in DOMAIN f \ {x} |-> f[y]])

\* C11: _compute_human_summary's counts have exactly the six canonical keys
\* and sum to the number of findings, a finding whose normalized severity is
\* not canonical is counted under UNKNOWN, and for each severity the
\* breakdown's category counts sum to that severity's count.
C11_CountsAndBreakdownAddUp ==
    pc = "summarized" =>
        LET norm(i) ==
                _normalize_severity(FGet(all_findings[i], "severity", PyStr(S_UNKNOWN)))
        IN  /\ DOMAIN summary.counts = Canonical
            /\ SumOf(summary.counts) = Len(all_findings)
            /\ \A s \in Canonical \ {S_UNKNOWN} :
                  summary.counts[s] = Cardinality({i \in 1..Len(all_findings) : norm(i) = s})
            /\ summary.counts[S_UNKNOWN] =
                  Cardinality({i \in 1..Len(all_findings) :
                                  norm(i) \notin Canonical \ {S_UNKNOWN}})
            /\ DOMAIN summary.breakdown = Canonical
            /\ \A s \in Canonical : SumOf(summary.breakdown[s]) = summary.counts[s]
C11_Witness ==
    /\ pc = "summarized"
    /\ Len(all_findings) = 3
    /\ FGet(all_findings[1], "severity", PyNone) = PyStr(S_MODERATE)
    /\ summary.counts[S_UNKNOWN] = 1
    /\ summary.counts[S_CRITICAL] = 2
    /\ DOMAIN summary.breakdown[S_CRITICAL] = {S_Secrets, <<"B", "a", "n">>}
    /\ DOMAIN summary.breakdown[S_UNKNOWN] = {S_Deps}

====
